---------------------------- MODULE Spec2Model ----------------------------
(***************************************************************************)
(* Detection post-processing of the camera screen: the NativeCamera and    *)
(* WebCamera components (detectObjects and its driver), the camera         *)
(* screen's capture handler, and the pure geometry helpers they call.      *)
(*                                                                         *)
(* JavaScript numbers are modelled as exact rationals <<n, d>> with d > 0  *)
(* and gcd(n, d) = 1; scores are rationals as well.  Array indices are     *)
(* 0-based as in the source, sequences 1-based: allDets[i] of the source   *)
(* is allDets[i + 1] here.                                                 *)
(***************************************************************************)
EXTENDS Integers, Sequences, FiniteSets, TLC

VARIABLES
    \* the platform and the frame geometry
    isWeb,          \* Platform.OS === 'web': WebCamera is rendered, else NativeCamera
    geom,           \* videoW, videoH (video / photo size), displayedW, displayedH
    \* the camera component
    modelReady,     \* model && isModelReady
    interval,       \* NativeCamera: the setInterval timer is set
    rafPending,     \* WebCamera: a requestAnimationFrame(loop) callback is scheduled
    cleanedUp,      \* the driver effect's cleanup has run
    cycles,         \* detectObjects calls that reached an await: [pc, stale]
    detections,     \* useState: detections
    chosenIndex,    \* useState: chosenIndex
    \* the camera screen
    boundingBox,    \* useState: boundingBox
    capturedImage,  \* useState: capturedImage
    isCaptured,     \* useState: isCaptured
    animations,     \* started capture animations: the thumbnail each callback closes over
    pendingPhotos,  \* native capture: takePictureAsync promises not yet resolved
    navLog,         \* router.push calls: the thumbnail parameter of each
    focused,        \* the camera screen has focus
    \* what happened (not read by the code)
    deliveries,     \* onDetection calls: [cycle, stale, isNull]
    diagnostics,    \* number of console.error / console.warn calls
    unhandled,      \* number of exceptions that escaped detectObjects
    lastPick,       \* arguments of the last pickCenterDetection call of a cycle
    lastCycle,      \* the cycle that ended last: [id, outcome, output]
    captureLog,     \* handleCapture calls: the boundingBox each saw
    \* a pickCenterDetection call on its own
    selArgs,        \* its arguments: allDets, width, height
    selResult,      \* <<the index it returned>>; <<>> before the call
    \* a call of one of the pure helpers on its own
    fnCall,         \* the function and its arguments: [fn, ...]
    fnResult        \* <<the value it returned>>; <<>> before the call

cameraVars == <<modelReady, interval, rafPending, cleanedUp, cycles, detections,
                chosenIndex>>
screenVars == <<boundingBox, capturedImage, isCaptured, animations, pendingPhotos,
                navLog, focused>>
historyVars == <<deliveries, diagnostics, unhandled, lastPick, lastCycle, captureLog>>
driverVars == <<isWeb, geom, cameraVars, screenVars, historyVars>>
selVars == <<selArgs, selResult>>
fnVars == <<fnCall, fnResult>>

vars == <<driverVars, selVars, fnVars>>

-----------------------------------------------------------------------------
(* JavaScript values *)

\* null, as in `Detection | null`
NULL == [null |-> TRUE]

\* undefined, as read from an array index that is out of range
UNDEFINED == [undefined |-> TRUE]

Abs(n) == IF n < 0 THEN -n ELSE n

RECURSIVE GCD(_, _)
GCD(a, b) == IF b = 0 THEN a ELSE GCD(b, a % b)

\* the number n / d in lowest terms (d # 0)
Norm(n, d) ==
    LET s == IF d < 0 THEN -1 ELSE 1
        g == GCD(Abs(n), Abs(d))
    IN  IF g = 0 THEN <<0, 1>> ELSE <<(s * n) \div g, (s * d) \div g>>

\* a number literal or integer-valued number
R(n) == <<n, 1>>

\* The arithmetic operators bind their operands (a \in {x}) so that each
\* operand is evaluated once, whatever expression it is.

\* the sum over the least common denominator
RAdd(x, y) ==
    CHOOSE r \in { LET g == GCD(a[2], b[2])
                   IN  Norm(a[1] * (b[2] \div g) + b[1] * (a[2] \div g),
                            (a[2] \div g) * b[2]) : a \in {x}, b \in {y} } : TRUE
RSub(x, y) ==
    CHOOSE r \in { RAdd(a, <<-b[1], b[2]>>) : a \in {x}, b \in {y} } : TRUE
\* the product, cancelling common factors before multiplying
RMul(x, y) ==
    CHOOSE r \in { LET g1 == GCD(Abs(a[1]), b[2])
                       g2 == GCD(Abs(b[1]), a[2])
                       h1 == IF g1 = 0 THEN 1 ELSE g1
                       h2 == IF g2 = 0 THEN 1 ELSE g2
                   IN  Norm((a[1] \div h1) * (b[1] \div h2),
                            (a[2] \div h2) * (b[2] \div h1)) : a \in {x}, b \in {y} } : TRUE
\* the quotient (y # 0)
RDiv(x, y) ==
    CHOOSE r \in { RMul(a, Norm(b[2], b[1])) : a \in {x}, b \in {y} } : TRUE
RSq(x) == CHOOSE r \in { RMul(a, a) : a \in {x} } : TRUE
RLt(x, y) ==
    \E a \in {x}, b \in {y} :
        LET g == GCD(a[2], b[2])
            h == IF g = 0 THEN 1 ELSE g
        IN  a[1] * (b[2] \div h) < b[1] * (a[2] \div h)
RLe(x, y) ==
    \E a \in {x}, b \in {y} :
        LET g == GCD(a[2], b[2])
            h == IF g = 0 THEN 1 ELSE g
        IN  a[1] * (b[2] \div h) <= b[1] * (a[2] \div h)
RGt(x, y) == RLt(y, x)
RGe(x, y) == RLe(y, x)

\* Number.MAX_VALUE: larger than every number the model computes (d = 0
\* makes RLt(a, Number_MAX_VALUE) true for every a)
Number_MAX_VALUE == <<1, 0>>

\* arr[i] for a 0-based index i: undefined when i is out of range
JsIndex(arr, i) == IF i + 1 \in DOMAIN arr THEN arr[i + 1] ELSE UNDEFINED

-----------------------------------------------------------------------------
(* pickCenterDetection: the detection whose centre is closest to the centre *)
(* of a width x height rectangle                                            *)

\* the squared distance computed in the forEach callback
CenterDist(det, centerX, centerY) ==
    LET detCenterX == RAdd(det.x, RDiv(det.width, R(2)))
        detCenterY == RAdd(det.y, RDiv(det.height, R(2)))
    IN  RAdd(RSq(RSub(detCenterX, centerX)), RSq(RSub(detCenterY, centerY)))

\* mutant: a later box at an equal distance replaces the current best
CloserOrEqual(dist, minDist) == RLe(dist, minDist)

\* `dist < minDist`
Closer(dist, minDist) == RLt(dist, minDist)

\* the forEach loop from element `index` (0-based) on
RECURSIVE PickLoop(_, _, _, _, _, _)
PickLoop(allDets, centerX, centerY, index, minDist, bestIndex) ==
    IF index >= Len(allDets)
    THEN bestIndex
    ELSE LET dist == CenterDist(allDets[index + 1], centerX, centerY)
         IN  IF Closer(dist, minDist)
             THEN PickLoop(allDets, centerX, centerY, index + 1, dist, index)
             ELSE PickLoop(allDets, centerX, centerY, index + 1, minDist, bestIndex)

\* mutant: the position in the list counted from 1
PickCenterOneBased(allDets, width, height) ==
    IF Len(allDets) = 0
    THEN -1
    ELSE 1 + PickLoop(allDets, RDiv(width, R(2)), RDiv(height, R(2)), 0,
                      Number_MAX_VALUE, -1)

\* mutant: minDist starts at 0 instead of Number.MAX_VALUE
PickCenterFromZero(allDets, width, height) ==
    IF Len(allDets) = 0
    THEN -1
    ELSE PickLoop(allDets, RDiv(width, R(2)), RDiv(height, R(2)), 0, R(0), -1)

\* mutant: no early return for an empty list, bestIndex starts at 0
PickCenterNoEmptyCheck(allDets, width, height) ==
    PickLoop(allDets, RDiv(width, R(2)), RDiv(height, R(2)), 0, Number_MAX_VALUE, 0)

pickCenterDetection(allDets, width, height) ==
    IF Len(allDets) = 0
    THEN -1
    ELSE PickLoop(allDets, RDiv(width, R(2)), RDiv(height, R(2)), 0,
                  Number_MAX_VALUE, -1)

\* Array.prototype.map and Array.prototype.filter
MapSeq(arr0, Op(_)) ==
    CHOOSE r \in { [i \in DOMAIN arr |-> Op(arr[i])] : arr \in {arr0} } : TRUE
FilterSeq(arr, Test(_)) == SelectSeq(arr, Test)

-----------------------------------------------------------------------------
(* Decoding and coordinate mapping.  A raw candidate is the row             *)
(* <<cx, cy, w, h, score, classId>>.  Every box carries a `maps` field      *)
(* that is not in the source: the coordinate mappings applied to it so far, *)
(* in order ("modelToNative" by the decoding functions, "nativeToDisplayed" *)
(* by mapToDisplayed).                                                      *)

\* the model's input size: the literal 640 of the scaling expressions
ModelInputSize == 640

\* NativeCamera: raw row to a box scaled by the decoded photo's size
convertToBoundingBox(det, originalWidth, originalHeight) ==
    LET cx == det[1]
        cy == det[2]
        w == det[3]
        h == det[4]
        score == det[5]
        classId == det[6]
        x1 == RMul(RSub(cx, RDiv(w, R(2))), RDiv(originalWidth, R(ModelInputSize)))
        y1 == RMul(RSub(cy, RDiv(h, R(2))), RDiv(originalHeight, R(ModelInputSize)))
    IN  [x |-> x1,
         y |-> y1,
         width |-> RMul(w, RDiv(originalWidth, R(ModelInputSize))),
         height |-> RMul(h, RDiv(originalHeight, R(ModelInputSize))),
         score |-> score,
         class |-> classId,
         maps |-> <<"modelToNative">>]

\* mutant: the box's corner is taken to be the candidate's centre
WebToVideoBoxFromCentre(det, videoW, videoH) ==
    [x |-> RMul(det[1], RDiv(videoW, R(ModelInputSize))),
     y |-> RMul(det[2], RDiv(videoH, R(ModelInputSize))),
     width |-> RMul(det[3], RDiv(videoW, R(ModelInputSize))),
     height |-> RMul(det[4], RDiv(videoH, R(ModelInputSize))),
     score |-> det[5], class |-> det[6], maps |-> <<"modelToNative">>]

\* WebCamera: the map callback that builds newDetections in video coordinates
WebToVideoBox(det, videoW, videoH) ==
    LET cx == det[1]
        cy == det[2]
        w == det[3]
        h == det[4]
        score == det[5]
        classId == det[6]
        x1 == RMul(RSub(cx, RDiv(w, R(2))), RDiv(videoW, R(ModelInputSize)))
        y1 == RMul(RSub(cy, RDiv(h, R(2))), RDiv(videoH, R(ModelInputSize)))
        width == RMul(w, RDiv(videoW, R(ModelInputSize)))
        height == RMul(h, RDiv(videoH, R(ModelInputSize)))
    IN  [x |-> x1, y |-> y1, width |-> width, height |-> height,
         score |-> score, class |-> classId, maps |-> <<"modelToNative">>]

\* mutant: the whole video is fitted inside the element (the branches swapped)
SourceRectContain(videoW, videoH, displayedW, displayedH) ==
    IF RLt(RDiv(videoW, videoH), RDiv(displayedW, displayedH))
    THEN [source_width |-> RMul(videoH, RDiv(displayedW, displayedH)),
          source_height |-> videoH,
          source_x |-> RDiv(RSub(videoW, RMul(videoH, RDiv(displayedW, displayedH))), R(2)),
          source_y |-> R(0)]
    ELSE [source_width |-> videoW,
          source_height |-> RMul(videoW, RDiv(displayedH, displayedW)),
          source_x |-> R(0),
          source_y |-> RDiv(RSub(videoH, RMul(videoW, RDiv(displayedH, displayedW))), R(2))]

\* mutant: the visible rectangle starts at the video's left and top edge
SourceRectUncentred(videoW, videoH, displayedW, displayedH) ==
    IF RGt(RDiv(videoW, videoH), RDiv(displayedW, displayedH))
    THEN [source_width |-> RMul(videoH, RDiv(displayedW, displayedH)),
          source_height |-> videoH,
          source_x |-> R(0),
          source_y |-> R(0)]
    ELSE [source_width |-> videoW,
          source_height |-> RMul(videoW, RDiv(displayedH, displayedW)),
          source_x |-> R(0),
          source_y |-> R(0)]

\* mutant: the sides are cropped whatever the two aspect ratios are
SourceRectCropsSides(videoW, videoH, displayedW, displayedH) ==
    [source_width |-> RMul(videoH, RDiv(displayedW, displayedH)),
     source_height |-> videoH,
     source_x |-> RDiv(RSub(videoW, RMul(videoH, RDiv(displayedW, displayedH))), R(2)),
     source_y |-> R(0)]

\* the part of the video that an objectFit: cover element shows
SourceRect(videoW, videoH, displayedW, displayedH) ==
    IF RGt(RDiv(videoW, videoH), RDiv(displayedW, displayedH))
    THEN LET source_height == videoH
             source_width == RMul(videoH, RDiv(displayedW, displayedH))
         IN  [source_width |-> source_width,
              source_height |-> source_height,
              source_x |-> RDiv(RSub(videoW, source_width), R(2)),
              source_y |-> R(0)]
    ELSE LET source_width == videoW
             source_height == RMul(videoW, RDiv(displayedH, displayedW))
         IN  [source_width |-> source_width,
              source_height |-> source_height,
              source_x |-> R(0),
              source_y |-> RDiv(RSub(videoH, source_height), R(2))]

\* the largest integer not above x
RFloor(x) == R(x[1] \div x[2])

\* mutant: the displayed box is snapped to whole pixels
mapToDisplayedWholePixels(det, videoW, videoH, displayedW, displayedH) ==
    LET src == SourceRect(videoW, videoH, displayedW, displayedH)
    IN  [x |-> RFloor(RMul(RDiv(RSub(det.x, src.source_x), src.source_width), displayedW)),
         y |-> RFloor(RMul(RDiv(RSub(det.y, src.source_y), src.source_height), displayedH)),
         width |-> RFloor(RMul(RDiv(det.width, src.source_width), displayedW)),
         height |-> RFloor(RMul(RDiv(det.height, src.source_height), displayedH)),
         score |-> det.score,
         class |-> det.class,
         maps |-> Append(det.maps, "nativeToDisplayed")]

mapToDisplayed(det, videoW, videoH, displayedW, displayedH) ==
    LET src == SourceRect(videoW, videoH, displayedW, displayedH)
        displayedX == RMul(RDiv(RSub(det.x, src.source_x), src.source_width), displayedW)
        displayedY == RMul(RDiv(RSub(det.y, src.source_y), src.source_height), displayedH)
        displayedWidth == RMul(RDiv(det.width, src.source_width), displayedW)
        displayedHeight == RMul(RDiv(det.height, src.source_height), displayedH)
    IN  [x |-> displayedX,
         y |-> displayedY,
         width |-> displayedWidth,
         height |-> displayedHeight,
         score |-> det.score,
         class |-> det.class,
         maps |-> Append(det.maps, "nativeToDisplayed")]

-----------------------------------------------------------------------------
(* nonMaxSuppression (@/utils/nonMaxSuppression): greedy suppression over   *)
(* rows <<cx, cy, w, h, score, classId>>, returning the surviving rows      *)

\* Convert [cx, cy, w, h] to [x1, y1, x2, y2]
xywh2xyxy(box) ==
    LET cx == box[1]
        cy == box[2]
        w == box[3]
        h == box[4]
    IN  <<RSub(cx, RDiv(w, R(2))), RSub(cy, RDiv(h, R(2))),
          RAdd(cx, RDiv(w, R(2))), RAdd(cy, RDiv(h, R(2)))>>

RMin(x, y) == CHOOSE r \in { IF RLt(a, b) THEN a ELSE b : a \in {x}, b \in {y} } : TRUE
RMax(x, y) == CHOOSE r \in { IF RLt(a, b) THEN b ELSE a : a \in {x}, b \in {y} } : TRUE

\* mutant: the intersection is divided by the first box's area
IoUOverFirstArea(a, b) ==
    CHOOSE r \in
        { LET iw == RMax(R(0), RSub(RMin(ca[3], cb[3]), RMax(ca[1], cb[1])))
              ih == RMax(R(0), RSub(RMin(ca[4], cb[4]), RMax(ca[2], cb[2])))
              areaA == RMul(RSub(ca[3], ca[1]), RSub(ca[4], ca[2]))
          IN  IF RMul(iw, ih) = R(0) \/ areaA = R(0)
              THEN R(0)
              ELSE RDiv(RMul(iw, ih), areaA) :
            ca \in {xywh2xyxy(a)}, cb \in {xywh2xyxy(b)} } : TRUE

\* intersectionArea / (areaA + areaB - intersectionArea); 0 without overlap
IoU(a, b) ==
    CHOOSE r \in
        { LET iw == RMax(R(0), RSub(RMin(ca[3], cb[3]), RMax(ca[1], cb[1])))
              ih == RMax(R(0), RSub(RMin(ca[4], cb[4]), RMax(ca[2], cb[2])))
              areaA == RMul(RSub(ca[3], ca[1]), RSub(ca[4], ca[2]))
              areaB == RMul(RSub(cb[3], cb[1]), RSub(cb[4], cb[2]))
          IN  CHOOSE q \in
                  { IF intersectionArea = R(0)
                        \/ RSub(RAdd(areaA, areaB), intersectionArea) = R(0)
                    THEN R(0)
                    ELSE RDiv(intersectionArea,
                              RSub(RAdd(areaA, areaB), intersectionArea)) :
                      intersectionArea \in {RMul(iw, ih)} } : TRUE :
            ca \in {xywh2xyxy(a)}, cb \in {xywh2xyxy(b)} } : TRUE

\* mutant: a row goes in front of the rows of equal score
RECURSIVE InsertByScoreTiesFirst(_, _)
InsertByScoreTiesFirst(sorted0, row0) ==
    CHOOSE r \in
        { IF sorted = <<>>
          THEN <<row>>
          ELSE IF RLe(Head(sorted)[5], row[5])
               THEN <<row>> \o sorted
               ELSE <<Head(sorted)>> \o InsertByScoreTiesFirst(Tail(sorted), row) :
            sorted \in {sorted0}, row \in {row0} } : TRUE

\* rows in descending score order, equal scores in their original order
RECURSIVE InsertByScore(_, _)
InsertByScore(sorted0, row0) ==
    CHOOSE r \in
        { IF sorted = <<>>
          THEN <<row>>
          ELSE IF RLt(Head(sorted)[5], row[5])
               THEN <<row>> \o sorted
               ELSE <<Head(sorted)>> \o InsertByScore(Tail(sorted), row) :
            sorted \in {sorted0}, row \in {row0} } : TRUE

RECURSIVE SortByScore(_)
SortByScore(rows0) ==
    CHOOSE r \in
        { IF rows = <<>>
          THEN <<>>
          ELSE InsertByScore(SortByScore(SubSeq(rows, 1, Len(rows) - 1)), rows[Len(rows)]) :
            rows \in {rows0} } : TRUE

\* mutant: the best remaining row is compared with the next row only
RECURSIVE SuppressionSweepNextOnly(_, _, _, _)
SuppressionSweepNextOnly(remaining0, output0, iouThreshold, maxOutputs) ==
    CHOOSE r \in
        { IF remaining = <<>> \/ Len(output) >= maxOutputs
          THEN output
          ELSE SuppressionSweepNextOnly(
                   IF Len(remaining) > 1
                      /\ RGt(IoU(Head(remaining), remaining[2]), iouThreshold)
                   THEN Tail(Tail(remaining))
                   ELSE Tail(remaining),
                   Append(output, Head(remaining)), iouThreshold, maxOutputs) :
            remaining \in {remaining0}, output \in {output0} } : TRUE

\* mutant: a row overlapping the best one is kept with half its score
RECURSIVE SuppressionSweepSoft(_, _, _, _)
SuppressionSweepSoft(remaining0, output0, iouThreshold, maxOutputs) ==
    CHOOSE r \in
        { IF remaining = <<>> \/ Len(output) >= maxOutputs
          THEN output
          ELSE SuppressionSweepSoft(
                   MapSeq(Tail(remaining),
                          LAMBDA d : IF RGt(IoU(Head(remaining), d), iouThreshold)
                                     THEN [d EXCEPT ![5] = RDiv(d[5], R(2))]
                                     ELSE d),
                   Append(output, Head(remaining)), iouThreshold, maxOutputs) :
            remaining \in {remaining0}, output \in {output0} } : TRUE

\* take the best remaining row, drop every remaining row overlapping it
RECURSIVE SuppressionSweep(_, _, _, _)
SuppressionSweep(remaining0, output0, iouThreshold, maxOutputs) ==
    CHOOSE r \in
        { IF remaining = <<>> \/ Len(output) >= maxOutputs
          THEN output
          ELSE SuppressionSweep(
                   FilterSeq(Tail(remaining),
                             LAMBDA d : ~RGt(IoU(Head(remaining), d), iouThreshold)),
                   Append(output, Head(remaining)), iouThreshold, maxOutputs) :
            remaining \in {remaining0}, output \in {output0} } : TRUE

NonMaxSuppressor(dets, scoreThreshold, iouThreshold, maxOutputs) ==
    SuppressionSweep(
        SortByScore(FilterSeq(dets, LAMBDA d : ~RLt(d[5], scoreThreshold))),
        <<>>, iouThreshold, maxOutputs)

\* the thresholds nonMaxSuppression uses when called with the output alone:
\* no score cut of its own (its callers threshold the result), IoU 0.5
NmsScoreThreshold == R(0)
NmsIouThreshold == <<1, 2>>
NmsMaxOutputs == 100

nonMaxSuppression(outputArray) ==
    NonMaxSuppressor(outputArray, NmsScoreThreshold, NmsIouThreshold, NmsMaxOutputs)

\* the score thresholds applied after nonMaxSuppression
NativeThreshold == <<3, 20>>
WebThreshold == <<1, 10>>

\* allDetections.filter((d) => d[4] >= threshold)
FilterByScore(allDetections, threshold) ==
    FilterSeq(allDetections, LAMBDA d : RGe(d[5], threshold))

-----------------------------------------------------------------------------
(* The earlier WebCamera variants scale a box straight to the displayed     *)
(* element's size                                                           *)

\* YOLO variant: row [cx, cy, w, h, score, classId] in 640-space
DirectToDisplayed(det, displayedVideoW, displayedVideoH) ==
    LET score == det[5]
        classId == det[6]
        c == xywh2xyxy(<<det[1], det[2], det[3], det[4]>>)
        x1 == c[1]
        y1 == c[2]
        x2 == c[3]
        y2 == c[4]
    IN  [x |-> RDiv(RMul(x1, displayedVideoW), R(ModelInputSize)),
         y |-> RDiv(RMul(y1, displayedVideoH), R(ModelInputSize)),
         width |-> RDiv(RMul(RSub(x2, x1), displayedVideoW), R(ModelInputSize)),
         height |-> RDiv(RMul(RSub(y2, y1), displayedVideoH), R(ModelInputSize)),
         score |-> score,
         class |-> classId,
         maps |-> <<"modelToDisplayed">>]

\* SSD variant: candidate box [ymin, xmin, ymax, xmax] in fractions of the frame
SsdToDisplayed(box, score, classId, displayedVideoW, displayedVideoH) ==
    LET ymin == box[1]
        xmin == box[2]
        ymax == box[3]
        xmax == box[4]
    IN  [x |-> RMul(xmin, displayedVideoW),
         y |-> RMul(ymin, displayedVideoH),
         width |-> RMul(RSub(xmax, xmin), displayedVideoW),
         height |-> RMul(RSub(ymax, ymin), displayedVideoH),
         score |-> score,
         class |-> classId,
         maps |-> <<"modelToDisplayed">>]

-----------------------------------------------------------------------------
(* One detection cycle's synchronous part: from the model's output to the   *)
(* values the component stores and delivers                                 *)

\* NativeCamera.detectObjects from `// NMS` to the onDetection call
NativeDetect(outputArray, photoW, photoH) ==
    LET allDetections == nonMaxSuppression(outputArray)
        filteredDetections == FilterByScore(allDetections, NativeThreshold)
        screenWidth == photoW
        screenHeight == photoH
        newDets == MapSeq(filteredDetections,
                          LAMBDA det : convertToBoundingBox(det, screenWidth, screenHeight))
        chosenDetIndex == pickCenterDetection(newDets, screenWidth, screenHeight)
    IN  [detections |-> newDets,
         chosenIndex |-> chosenDetIndex,
         delivered |-> IF chosenDetIndex >= 0 THEN JsIndex(newDets, chosenDetIndex) ELSE NULL,
         pick |-> [allDets |-> newDets, width |-> screenWidth, height |-> screenHeight]]

\* mutant: the chosen detection is read from displayedDets
WebDetectDeliversDisplayed(outputArray, videoW, videoH, displayedW, displayedH) ==
    LET allDetections == nonMaxSuppression(outputArray)
        filteredDetections == FilterByScore(allDetections, WebThreshold)
        newDetections == MapSeq(filteredDetections,
                                LAMBDA det : WebToVideoBox(det, videoW, videoH))
        displayedDets == MapSeq(newDetections,
                                LAMBDA det : mapToDisplayed(det, videoW, videoH,
                                                            displayedW, displayedH))
        chosenDetIndex == pickCenterDetection(displayedDets, displayedW, displayedH)
    IN  [detections |-> newDetections,
         chosenIndex |-> chosenDetIndex,
         delivered |-> IF chosenDetIndex >= 0 THEN JsIndex(displayedDets, chosenDetIndex)
                       ELSE NULL,
         pick |-> [allDets |-> displayedDets, width |-> displayedW, height |-> displayedH]]

\* mutant: the index is picked among the native-space boxes
WebDetectPicksAmongNative(outputArray, videoW, videoH, displayedW, displayedH) ==
    LET allDetections == nonMaxSuppression(outputArray)
        filteredDetections == FilterByScore(allDetections, WebThreshold)
        newDetections == MapSeq(filteredDetections,
                                LAMBDA det : WebToVideoBox(det, videoW, videoH))
        chosenDetIndex == pickCenterDetection(newDetections, displayedW, displayedH)
        chosenDet == IF chosenDetIndex >= 0 THEN JsIndex(newDetections, chosenDetIndex) ELSE NULL
    IN  [detections |-> newDetections,
         chosenIndex |-> chosenDetIndex,
         delivered |-> chosenDet,
         pick |-> [allDets |-> newDetections, width |-> displayedW, height |-> displayedH]]

\* WebCamera.detectObjects from nonMaxSuppression to the onDetection call
WebDetect(outputArray, videoW, videoH, displayedW, displayedH) ==
    LET allDetections == nonMaxSuppression(outputArray)
        filteredDetections == FilterByScore(allDetections, WebThreshold)
        newDetections == MapSeq(filteredDetections,
                                LAMBDA det : WebToVideoBox(det, videoW, videoH))
        displayedDets == MapSeq(newDetections,
                                LAMBDA det : mapToDisplayed(det, videoW, videoH,
                                                            displayedW, displayedH))
        chosenDetIndex == pickCenterDetection(displayedDets, displayedW, displayedH)
        chosenDet == IF chosenDetIndex >= 0 THEN JsIndex(newDetections, chosenDetIndex) ELSE NULL
    IN  [detections |-> newDetections,
         chosenIndex |-> chosenDetIndex,
         delivered |-> chosenDet,
         pick |-> [allDets |-> displayedDets, width |-> displayedW, height |-> displayedH]]

\* the boxes the overlay draws at left = x, top = y
Overlay ==
    IF isWeb
    THEN MapSeq(detections,
                LAMBDA det : mapToDisplayed(det, R(geom.videoW), R(geom.videoH),
                                            R(geom.displayedW), R(geom.displayedH)))
    ELSE detections

-----------------------------------------------------------------------------
(* The environment: geometries and model outputs                            *)

\* most detectObjects calls that reach an await, and most handleCapture calls
MaxCycles == 2
MaxCaptures == 1

Geoms ==
    { [videoW |-> 640, videoH |-> 640, displayedW |-> 640, displayedH |-> 640],
      [videoW |-> 1280, videoH |-> 640, displayedW |-> 320, displayedH |-> 640],
      [videoW |-> 640, videoH |-> 1280, displayedW |-> 640, displayedH |-> 320] }

Row(cx, cy, w, h, score, classId) == <<R(cx), R(cy), R(w), R(h), score, R(classId)>>

\* no candidate; one candidate below both thresholds; an off-centre object
\* and a centred object with a second, weaker row on it
RawOutputs ==
    { <<>>,
      <<Row(320, 320, 100, 100, <<1, 20>>, 0)>>,
      <<Row(100, 100, 50, 50, <<9, 10>>, 1), Row(322, 322, 100, 100, <<3, 5>>, 0),
        Row(320, 320, 100, 100, <<4, 5>>, 0)>> }

-----------------------------------------------------------------------------
(* The camera component and its driver                                      *)

InFlightPcs == {"takePicture", "readFile", "inference"}
InFlight(c) == cycles[c].pc \in InFlightPcs

SetPc(c, pc) == [cycles EXCEPT ![c].pc = pc]

\* a cycle ends without storing or delivering anything
EndsEmptyHanded(c) ==
    /\ lastCycle' = [id |-> c, outcome |-> "failed", output |-> <<>>]
    /\ cycles' = SetPc(c, "failed")
    /\ UNCHANGED <<detections, chosenIndex, boundingBox, deliveries, lastPick>>

\* setDetections, setChosenIndex and onDetection -> handleDetection -> setBoundingBox
Publishes(c, output, result) ==
    /\ detections' = result.detections
    /\ chosenIndex' = result.chosenIndex
    /\ boundingBox' = result.delivered
    /\ deliveries' = Append(deliveries, [cycle |-> c, stale |-> cycles[c].stale,
                                          isNull |-> result.delivered = NULL])
    /\ lastPick' = result.pick
    /\ lastCycle' = [id |-> c, outcome |-> "published", output |-> output]
    /\ cycles' = SetPc(c, "done")

\* WebCamera: loop() runs detectObjects up to its first await, or through its
\* early return (no video yet) and on to requestAnimationFrame(loop)
WebLoopRuns(videoPlaying) ==
    IF videoPlaying
    THEN /\ cycles' = Append(cycles, [pc |-> "inference", stale |-> FALSE])
         /\ rafPending' = FALSE
    ELSE /\ rafPending' = TRUE
         /\ UNCHANGED cycles

\* the model finishes loading: setModel, setIsModelReady, and the driver
\* effect runs: setInterval (native, permission granted) or loop() (web)
ModelLoaded ==
    /\ ~modelReady
    /\ ~cleanedUp
    /\ modelReady' = TRUE
    /\ IF isWeb
       THEN /\ \E videoPlaying \in BOOLEAN : WebLoopRuns(videoPlaying)
            /\ UNCHANGED interval
       ELSE /\ interval' = TRUE
            /\ UNCHANGED <<rafPending, cycles>>
    /\ UNCHANGED <<isWeb, geom, cleanedUp, detections, chosenIndex, screenVars, historyVars>>

\* NativeCamera: the 1-second timer fires and calls detectObjects, which
\* passes its guard and suspends on takePictureAsync
IntervalTick ==
    /\ ~isWeb
    /\ interval
    /\ modelReady
    /\ Len(cycles) < MaxCycles
    /\ cycles' = Append(cycles, [pc |-> "takePicture", stale |-> FALSE])
    /\ UNCHANGED <<isWeb, geom, modelReady, interval, rafPending, cleanedUp, detections,
                   chosenIndex, screenVars, historyVars>>

\* NativeCamera: takePictureAsync settles: a photo, a rejection (caught and
\* logged) or a photo without uri (warned, return)
TakePictureSettles(c) ==
    /\ cycles[c].pc = "takePicture"
    /\ \E outcome \in {"photo", "throws", "noUri"} :
          IF outcome = "photo"
          THEN /\ cycles' = SetPc(c, "readFile")
               /\ UNCHANGED <<detections, chosenIndex, boundingBox, deliveries,
                              diagnostics, lastPick, lastCycle>>
          ELSE /\ EndsEmptyHanded(c)
               /\ diagnostics' = diagnostics + 1
    /\ UNCHANGED <<isWeb, geom, modelReady, interval, rafPending, cleanedUp, capturedImage,
                   isCaptured, animations, pendingPhotos, navLog, focused, unhandled,
                   captureLog>>

\* NativeCamera: readAsStringAsync settles and the rest of detectObjects runs:
\* a throw in any stage (read, decodeJpeg, model.execute, arraySync) is caught
\* and logged; else the result is stored and delivered
ReadSettles(c) ==
    /\ cycles[c].pc = "readFile"
    /\ \/ /\ EndsEmptyHanded(c)
          /\ diagnostics' = diagnostics + 1
       \/ /\ \E output \in RawOutputs :
                Publishes(c, output, NativeDetect(output, R(geom.videoW), R(geom.videoH)))
          /\ UNCHANGED diagnostics
    /\ UNCHANGED <<isWeb, geom, modelReady, interval, rafPending, cleanedUp, capturedImage,
                   isCaptured, animations, pendingPhotos, navLog, focused, unhandled,
                   captureLog>>

\* WebCamera: the scheduled animation frame runs loop()
AnimationFrame ==
    /\ isWeb
    /\ rafPending
    /\ Len(cycles) < MaxCycles
    /\ \E videoPlaying \in BOOLEAN : WebLoopRuns(videoPlaying)
    /\ UNCHANGED <<isWeb, geom, modelReady, interval, cleanedUp, detections, chosenIndex,
                   screenVars, historyVars>>

\* WebCamera: executeAsync settles.  A rejection is caught, logged, and the
\* loop goes on; an output whose first tensor cannot be read throws out of
\* detectObjects and out of loop(); else the result is stored and delivered
\* and the loop requests the next frame
InferenceSettles(c) ==
    /\ cycles[c].pc = "inference"
    /\ \/ /\ EndsEmptyHanded(c)
          /\ diagnostics' = diagnostics + 1
          /\ rafPending' = TRUE
          /\ UNCHANGED unhandled
       \/ /\ EndsEmptyHanded(c)
          /\ unhandled' = unhandled + 1
          /\ UNCHANGED <<diagnostics, rafPending>>
       \/ /\ \E output \in RawOutputs :
                Publishes(c, output,
                          WebDetect(output, R(geom.videoW), R(geom.videoH),
                                    R(geom.displayedW), R(geom.displayedH)))
          /\ rafPending' = TRUE
          /\ UNCHANGED <<diagnostics, unhandled>>
    /\ UNCHANGED <<isWeb, geom, modelReady, interval, cleanedUp, capturedImage,
                   isCaptured, animations, pendingPhotos, navLog, focused, captureLog>>

\* the driver effect's cleanup: clearInterval / cancelAnimationFrame.  The
\* cycles suspended at this moment are the ones pending at teardown
Cleanup ==
    /\ ~cleanedUp
    /\ cleanedUp' = TRUE
    /\ interval' = FALSE
    /\ rafPending' = FALSE
    /\ cycles' = [c \in DOMAIN cycles |->
                    IF InFlight(c) THEN [cycles[c] EXCEPT !.stale = TRUE] ELSE cycles[c]]
    /\ UNCHANGED <<isWeb, geom, modelReady, detections, chosenIndex, screenVars, historyVars>>

-----------------------------------------------------------------------------
(* The camera screen                                                        *)

\* cameraRef.current: the camera element, once the component renders it
cameraRefCurrent == modelReady

\* mutant: the guard tests the camera element only
HasCameraOnly(box) == cameraRefCurrent

\* the negation of `!cameraRef.current || !boundingBox`
PassesCaptureGuard(box) == cameraRefCurrent /\ box # NULL /\ box # UNDEFINED

\* canvas.toDataURL of the region drawImage copies: the source rectangle
CroppedImage(box, n) == [crop |-> box, capture |-> n]

\* photo.uri of the n-th capture's photo
PhotoUri(n) == [uri |-> n]

\* the Appraise button's handler
handleCapture ==
    /\ focused
    /\ Len(captureLog) < MaxCaptures
    /\ captureLog' = Append(captureLog, [box |-> boundingBox])
    /\ LET n == Len(captureLog) + 1
           starts == /\ isCaptured' = TRUE
                     /\ animations' = Append(animations, capturedImage)
                     /\ UNCHANGED diagnostics
           returns == /\ diagnostics' = diagnostics + 1
                      /\ UNCHANGED <<capturedImage, isCaptured, animations, pendingPhotos>>
       IN  IF ~PassesCaptureGuard(boundingBox)
           THEN returns
           ELSE IF isWeb
                THEN \E hasContext \in BOOLEAN :
                        IF hasContext
                        THEN /\ capturedImage' = CroppedImage(boundingBox, n)
                             /\ UNCHANGED pendingPhotos
                             /\ starts
                        ELSE returns
                ELSE /\ pendingPhotos' = Append(pendingPhotos, n)
                     /\ UNCHANGED capturedImage
                     /\ starts
    /\ UNCHANGED <<isWeb, geom, cameraVars, boundingBox, navLog, focused, deliveries,
                   unhandled, lastPick, lastCycle>>

\* native capture: takePictureAsync resolves, setCapturedImage(photo.uri)
CapturePhotoTaken ==
    /\ pendingPhotos # <<>>
    /\ capturedImage' = PhotoUri(Head(pendingPhotos))
    /\ pendingPhotos' = Tail(pendingPhotos)
    /\ UNCHANGED <<isWeb, geom, cameraVars, boundingBox, isCaptured, animations, navLog,
                   focused, historyVars>>

\* the animation sequence ends: its callback pushes the appraise screen
AnimationEnds ==
    /\ animations # <<>>
    /\ navLog' = Append(navLog, Head(animations))
    /\ animations' = Tail(animations)
    /\ focused' = FALSE
    /\ UNCHANGED <<isWeb, geom, cameraVars, boundingBox, capturedImage, isCaptured,
                   pendingPhotos, historyVars>>

\* useFocusEffect: the screen gains focus again (the user comes back from the
\* appraise screen)
ScreenFocuses ==
    /\ ~focused
    /\ focused' = TRUE
    /\ capturedImage' = NULL
    /\ isCaptured' = FALSE
    /\ boundingBox' = NULL
    /\ UNCHANGED <<isWeb, geom, cameraVars, animations, pendingPhotos, navLog, historyVars>>

-----------------------------------------------------------------------------

\* no pickCenterDetection call on its own is under way
SelIdle ==
    /\ selArgs = [allDets |-> <<>>, width |-> R(0), height |-> R(0)]
    /\ selResult = <<>>

\* no helper call on its own is under way
FnIdle ==
    /\ fnCall = [fn |-> "none"]
    /\ fnResult = <<>>

\* the components as first rendered, the screen focused
DriverStart ==
    /\ modelReady = FALSE
    /\ interval = FALSE
    /\ rafPending = FALSE
    /\ cleanedUp = FALSE
    /\ cycles = <<>>
    /\ detections = <<>>
    /\ chosenIndex = -1
    /\ boundingBox = NULL
    /\ capturedImage = NULL
    /\ isCaptured = FALSE
    /\ animations = <<>>
    /\ pendingPhotos = <<>>
    /\ navLog = <<>>
    /\ focused = TRUE
    /\ deliveries = <<>>
    /\ diagnostics = 0
    /\ unhandled = 0
    /\ lastPick = NULL
    /\ lastCycle = NULL
    /\ captureLog = <<>>

Init ==
    /\ isWeb \in BOOLEAN
    /\ geom \in Geoms
    /\ DriverStart
    /\ SelIdle
    /\ FnIdle

Next ==
    /\ \/ ModelLoaded
       \/ IntervalTick
       \/ \E c \in DOMAIN cycles : TakePictureSettles(c)
       \/ \E c \in DOMAIN cycles : ReadSettles(c)
       \/ AnimationFrame
       \/ \E c \in DOMAIN cycles : InferenceSettles(c)
       \/ Cleanup
       \/ handleCapture
       \/ CapturePhotoTaken
       \/ AnimationEnds
       \/ ScreenFocuses
    /\ UNCHANGED <<selVars, fnVars>>

Spec == Init /\ [][Next]_vars

\* the timer or the requested animation frame fires and detectObjects gets
\* as far as its first await
StartsCycle ==
    /\ IntervalTick \/ AnimationFrame
    /\ Len(cycles') > Len(cycles)
    /\ UNCHANGED <<selVars, fnVars>>

\* an awaited promise of a cycle settles
CycleSettles ==
    /\ \E c \in DOMAIN cycles :
          TakePictureSettles(c) \/ ReadSettles(c) \/ InferenceSettles(c)
    /\ UNCHANGED <<selVars, fnVars>>

\* the driver with a running clock: a timer that is set fires, a requested
\* animation frame is run, the video has a frame while the component is
\* mounted, and every pending promise settles
SpecFair == Init /\ [][Next]_vars /\ WF_vars(StartsCycle) /\ WF_vars(CycleSettles)

-----------------------------------------------------------------------------
(* Calls of pickCenterDetection on arbitrary lists of boxes *)

\* longest list of boxes handed to the selector
MaxDets == 3

\* box coordinates and sizes the selector is tried on
SelXs == {-1, 0, 2}
SelYs == {0, 1}
SelSizes == {0, 2}

SelBoxes ==
    { [x |-> R(bx), y |-> R(by), width |-> R(bw), height |-> R(2)] :
        bx \in SelXs, by \in SelYs, bw \in SelSizes }

SelViewports == { <<4, 4>>, <<3, 2>> }

SeqsUpTo(S, n) == UNION { [1..k -> S] : k \in 0..n }

SelInit ==
    /\ isWeb = FALSE
    /\ geom = [videoW |-> 640, videoH |-> 640, displayedW |-> 640, displayedH |-> 640]
    /\ DriverStart
    /\ selArgs \in { [allDets |-> ds, width |-> R(v[1]), height |-> R(v[2])] :
                       ds \in SeqsUpTo(SelBoxes, MaxDets), v \in SelViewports }
    /\ selResult = <<>>
    /\ FnIdle

CallPickCenter ==
    /\ selResult = <<>>
    /\ selResult' = <<pickCenterDetection(selArgs.allDets, selArgs.width, selArgs.height)>>
    /\ UNCHANGED <<selArgs, driverVars, fnVars>>

SelNext == CallPickCenter

SpecSelector == SelInit /\ [][SelNext]_vars

-----------------------------------------------------------------------------
(* Calls of the geometry helpers, of the suppressor and of a cycle's        *)
(* synchronous part on chosen arguments                                     *)

\* <<videoW, videoH, displayedW, displayedH>>: cropped at the sides, not
\* cropped (same size, smaller, larger), cropped at top and bottom
HelperGeoms ==
    { <<1920, 1080, 360, 640>>, <<1280, 640, 320, 640>>,
      <<640, 640, 640, 640>>, <<1280, 720, 640, 360>>, <<640, 480, 960, 720>>,
      <<640, 1280, 640, 320>>, <<360, 640, 1920, 1080>> }

HelperSizes == { <<0, 0>>, <<100, 50>>, <<30, 30>> }

\* native-space boxes for a W x H frame: at the origin, centred on the
\* frame's centre, partly outside the frame
NativeBoxes(W, H) ==
    UNION { { [x |-> bx, y |-> by, width |-> R(sz[1]), height |-> R(sz[2]),
               score |-> <<9, 10>>, class |-> R(1), maps |-> <<"modelToNative">>] :
                bx \in {R(0), RDiv(R(W - sz[1]), R(2)), R(-10)},
                by \in {R(0), RDiv(R(H - sz[2]), R(2))} } :
              sz \in HelperSizes }

\* raw candidates in 640-space; the last two have a negative size
HelperRows ==
    { Row(320, 320, 100, 100, <<9, 10>>, 0),
      Row(100, 200, 50, 80, <<1, 2>>, 3),
      Row(0, 0, 0, 0, R(0), 0),
      Row(630, 20, 40, 60, R(1), 7),
      Row(320, 320, -100, 100, <<9, 10>>, 0),
      Row(320, 320, 100, -100, <<4, 5>>, 2) }

\* SSD candidate boxes [ymin, xmin, ymax, xmax]
SsdBoxes ==
    { <<R(0), R(0), R(1), R(1)>>,
      << <<1, 4>>, <<1, 2>>, <<3, 4>>, <<3, 4>> >>,
      << <<1, 10>>, <<1, 5>>, <<1, 2>>, <<2, 5>> >> }

MapCalls ==
    UNION { { [fn |-> "mapToDisplayed", det |-> b, videoW |-> R(g[1]), videoH |-> R(g[2]),
               displayedW |-> R(g[3]), displayedH |-> R(g[4])] :
                b \in NativeBoxes(g[1], g[2]) } : g \in HelperGeoms }

\* decoding and scaling of one row, by each component and each variant
DecodeCalls ==
    { [fn |-> f, det |-> row, videoW |-> R(g[1]), videoH |-> R(g[2]),
       displayedW |-> R(g[3]), displayedH |-> R(g[4])] :
        f \in {"convertToBoundingBox", "WebToVideoBox", "DirectToDisplayed"},
        row \in HelperRows, g \in HelperGeoms }

SsdCalls ==
    { [fn |-> "SsdToDisplayed", box |-> b, score |-> <<3, 5>>, class |-> R(17),
       videoW |-> R(g[1]), videoH |-> R(g[2]),
       displayedW |-> R(g[3]), displayedH |-> R(g[4])] :
        b \in SsdBoxes, g \in HelperGeoms }

\* longest list handed to NonMaxSuppressor
MaxRows == 3

\* rows for the suppressor: two nearly identical boxes, a third on the first
\* with the second's score, a box far away, a weak box on the far one, and
\* two boxes that continue the first to the right, each overlapping only
\* its neighbour
NmsRows ==
    { Row(320, 320, 100, 100, <<9, 10>>, 0),
      Row(322, 322, 100, 100, <<3, 5>>, 0),
      Row(320, 320, 100, 100, <<3, 5>>, 1),
      Row(100, 100, 50, 50, <<4, 5>>, 1),
      Row(100, 100, 50, 50, <<1, 20>>, 2),
      Row(400, 320, 100, 100, <<4, 5>>, 0),
      Row(480, 320, 100, 100, <<3, 5>>, 0) }

NmsScoreThresholds == { R(0), <<1, 2>> }
NmsIouThresholds == { R(0), <<1, 2>> }
NmsMaxOutputValues == { 0, 1, 2, NmsMaxOutputs }

NmsCalls ==
    { [fn |-> "NonMaxSuppressor", dets |-> ds, scoreThreshold |-> st,
       iouThreshold |-> it, maxOutputs |-> mo] :
        ds \in SeqsUpTo(NmsRows, MaxRows), st \in NmsScoreThresholds,
        it \in NmsIouThresholds, mo \in NmsMaxOutputValues }

\* model outputs for one cycle: none; one centred candidate; one with a
\* negative width; one with a score above 1; one below both thresholds;
\* two weak candidates on each other; two nearly identical candidates
DetectOutputs ==
    { <<>>,
      <<Row(320, 320, 100, 100, <<9, 10>>, 0)>>,
      <<Row(320, 320, -100, 100, <<9, 10>>, 0)>>,
      <<Row(320, 320, 100, 100, <<6, 5>>, 0)>>,
      <<Row(320, 320, 100, 100, <<1, 20>>, 0)>>,
      <<Row(322, 322, 100, 100, <<1, 20>>, 0), Row(320, 320, 100, 100, <<1, 8>>, 0)>>,
      <<Row(320, 320, 100, 100, <<9, 10>>, 0), Row(322, 322, 100, 100, <<3, 5>>, 0)>>,
      <<Row(100, 100, 50, 50, <<9, 10>>, 1), Row(322, 322, 100, 100, <<3, 5>>, 0),
        Row(320, 320, 100, 100, <<4, 5>>, 0)>> }

DetectCalls ==
    { [fn |-> f, output |-> out, videoW |-> R(g[1]), videoH |-> R(g[2]),
       displayedW |-> R(g[3]), displayedH |-> R(g[4])] :
        f \in {"NativeDetect", "WebDetect"}, out \in DetectOutputs, g \in HelperGeoms }

\* one statement of detectObjects: the tensors it creates, the tensors it
\* disposes, whether it can throw (before creating anything), whether it is
\* a conditional return, and the tensors the catch clause around it disposes
Stmt(line, creates, disposes, mayThrow, mayReturn, catchDisposes) ==
    [line |-> line, creates |-> creates, disposes |-> disposes, mayThrow |-> mayThrow,
     mayReturn |-> mayReturn, catchDisposes |-> catchDisposes]

\* the argument of the final dispose call of either component
InputTensors == {"frame", "resized", "normalized", "transposed", "inputTensor"}

\* NativeCamera.detectObjects; "frame" is imgTensor.  Both catch clauses
\* (decodeError, err) only log
NativeDetectObjects ==
    << Stmt(176, {}, {}, FALSE, TRUE, {}),
       Stmt(180, {}, {}, TRUE, FALSE, {}),
       Stmt(186, {}, {}, FALSE, TRUE, {}),
       Stmt(192, {}, {}, TRUE, FALSE, {}),
       Stmt(200, {"frame"}, {}, TRUE, FALSE, {}),
       Stmt(207, {"resized"}, {}, FALSE, FALSE, {}),
       Stmt(208, {"normalized"}, {}, FALSE, FALSE, {}),
       Stmt(209, {"transposed"}, {}, FALSE, FALSE, {}),
       Stmt(210, {"inputTensor"}, {}, FALSE, FALSE, {}),
       Stmt(213, {"output"}, {}, TRUE, FALSE, {}),
       Stmt(216, {}, {}, TRUE, FALSE, {}),
       Stmt(217, {}, {"output"}, FALSE, FALSE, {}),
       Stmt(220, {}, {}, TRUE, FALSE, {}),
       Stmt(241, {}, InputTensors, FALSE, FALSE, {}) >>

\* WebCamera.detectObjects; "frame" is frameTensor (fromPixels makes three
\* channels, so the slice of a fourth one is not taken).  Only executeAsync
\* is inside a try, and its catch clause disposes the five input tensors
WebDetectObjects ==
    << Stmt(316, {}, {}, FALSE, TRUE, {}),
       Stmt(318, {}, {}, FALSE, TRUE, {}),
       Stmt(326, {"frame"}, {}, FALSE, FALSE, {}),
       Stmt(334, {"resized"}, {}, FALSE, FALSE, {}),
       Stmt(335, {"normalized"}, {}, FALSE, FALSE, {}),
       Stmt(336, {"transposed"}, {}, FALSE, FALSE, {}),
       Stmt(337, {"inputTensor"}, {}, FALSE, FALSE, {}),
       Stmt(341, {"output"}, {}, TRUE, FALSE, InputTensors),
       Stmt(350, {}, {}, TRUE, FALSE, {}),
       Stmt(352, {}, {"output"}, FALSE, FALSE, {}),
       Stmt(354, {}, {}, TRUE, FALSE, {}),
       Stmt(400, {}, InputTensors, FALSE, FALSE, {}) >>

\* the ways a call can end: a throw or a return at a statement, or running
\* off the end
Exits(stmts) ==
    { [at |-> k, how |-> "throws"] : k \in { i \in DOMAIN stmts : stmts[i].mayThrow } }
        \cup { [at |-> k, how |-> "returns"] :
                  k \in { i \in DOMAIN stmts : stmts[i].mayReturn } }
        \cup { [at |-> Len(stmts) + 1, how |-> "completes"] }

\* the tensors live after statements i .. (exit.at - 1) have run and the
\* call has ended at exit
RECURSIVE LiveTensors(_, _, _, _)
LiveTensors(stmts, i, live, exit) ==
    IF i = exit.at
    THEN IF exit.how = "throws" THEN live \ stmts[i].catchDisposes ELSE live
    ELSE LiveTensors(stmts, i + 1, (live \cup stmts[i].creates) \ stmts[i].disposes, exit)

detectObjectsOf(web) == IF web THEN WebDetectObjects ELSE NativeDetectObjects

TensorCalls ==
    UNION { { [fn |-> "detectObjects", web |-> w, exit |-> e] :
                e \in Exits(detectObjectsOf(w)) } : w \in BOOLEAN }

\* boxes for IoU: the suppressor's rows, a box without area, and a box that
\* touches the first row's box along an edge
IouBoxes ==
    NmsRows \cup { Row(320, 320, 0, 0, <<1, 2>>, 0), Row(420, 320, 100, 100, <<1, 2>>, 0) }

IouCalls == { [fn |-> "IoU", a |-> boxA, b |-> boxB] : boxA \in IouBoxes, boxB \in IouBoxes }

HelperCalls ==
    MapCalls \cup DecodeCalls \cup SsdCalls \cup NmsCalls \cup DetectCalls \cup IouCalls
        \cup TensorCalls

HelperInit ==
    /\ isWeb = TRUE
    /\ geom = [videoW |-> 640, videoH |-> 640, displayedW |-> 640, displayedH |-> 640]
    /\ DriverStart
    /\ SelIdle
    /\ fnCall \in HelperCalls
    /\ fnResult = <<>>

Returns(value) ==
    /\ Len(fnResult) = 0
    /\ fnResult' = <<value>>
    /\ UNCHANGED <<fnCall, driverVars, selVars>>

CallMapToDisplayed ==
    /\ fnCall.fn = "mapToDisplayed"
    /\ Returns(mapToDisplayed(fnCall.det, fnCall.videoW, fnCall.videoH,
                              fnCall.displayedW, fnCall.displayedH))

\* NativeCamera: the photo's size is the original size
CallConvertToBoundingBox ==
    /\ fnCall.fn = "convertToBoundingBox"
    /\ Returns(convertToBoundingBox(fnCall.det, fnCall.videoW, fnCall.videoH))

CallWebToVideoBox ==
    /\ fnCall.fn = "WebToVideoBox"
    /\ Returns(WebToVideoBox(fnCall.det, fnCall.videoW, fnCall.videoH))

CallDirectToDisplayed ==
    /\ fnCall.fn = "DirectToDisplayed"
    /\ Returns(DirectToDisplayed(fnCall.det, fnCall.displayedW, fnCall.displayedH))

CallSsdToDisplayed ==
    /\ fnCall.fn = "SsdToDisplayed"
    /\ Returns(SsdToDisplayed(fnCall.box, fnCall.score, fnCall.class,
                              fnCall.displayedW, fnCall.displayedH))

CallNonMaxSuppressor ==
    /\ fnCall.fn = "NonMaxSuppressor"
    /\ Returns(NonMaxSuppressor(fnCall.dets, fnCall.scoreThreshold,
                                fnCall.iouThreshold, fnCall.maxOutputs))

CallIoU ==
    /\ fnCall.fn = "IoU"
    /\ Returns(IoU(fnCall.a, fnCall.b))

\* NativeCamera.detectObjects after inference, on a videoW x videoH photo
CallNativeDetect ==
    /\ fnCall.fn = "NativeDetect"
    /\ Returns(NativeDetect(fnCall.output, fnCall.videoW, fnCall.videoH))

\* WebCamera.detectObjects after inference
CallWebDetect ==
    /\ fnCall.fn = "WebDetect"
    /\ Returns(WebDetect(fnCall.output, fnCall.videoW, fnCall.videoH,
                         fnCall.displayedW, fnCall.displayedH))

\* one call of detectObjects from its first statement to its end: the
\* tensors it leaves undisposed
CallDetectObjects ==
    /\ fnCall.fn = "detectObjects"
    /\ Returns(LiveTensors(detectObjectsOf(fnCall.web), 1, {}, fnCall.exit))

HelperNext ==
    \/ CallMapToDisplayed
    \/ CallConvertToBoundingBox
    \/ CallWebToVideoBox
    \/ CallDirectToDisplayed
    \/ CallSsdToDisplayed
    \/ CallNonMaxSuppressor
    \/ CallIoU
    \/ CallDetectObjects
    \/ CallNativeDetect
    \/ CallWebDetect

SpecHelpers == HelperInit /\ [][HelperNext]_vars

\* the helper call recorded in fnCall has returned
Returned(fn) == fnCall.fn = fn /\ Len(fnResult) = 1

-----------------------------------------------------------------------------
(* C7: for every non-empty list, pickCenterDetection returns an index whose *)
(* box centre has the minimum squared distance to the rectangle's centre,   *)
(* and the earliest such index                                              *)

\* squared distance of box i (1-based) from the centre, multiplied by 4:
\* (2x + w - W)^2 + (2y + h - H)^2, written without the selector's helpers
SqDist4(args, i) ==
    LET b == args.allDets[i]
        dx == RSub(RAdd(RMul(R(2), b.x), b.width), args.width)
        dy == RSub(RAdd(RMul(R(2), b.y), b.height), args.height)
    IN  RAdd(RMul(dx, dx), RMul(dy, dy))

C7_ClosestEarliest ==
    (selResult # <<>> /\ Len(selArgs.allDets) > 0) =>
        LET best == selResult[1] + 1
        IN  /\ best \in DOMAIN selArgs.allDets
            /\ \A j \in DOMAIN selArgs.allDets :
                  /\ RLe(SqDist4(selArgs, best), SqDist4(selArgs, j))
                  /\ j < best => RLt(SqDist4(selArgs, best), SqDist4(selArgs, j))

\* a call on three boxes of which the last two tie for the minimum and the
\* first is farther away
C7_Witness ==
    /\ selResult = <<1>>
    /\ Len(selArgs.allDets) = 3
    /\ SqDist4(selArgs, 2) = SqDist4(selArgs, 3)
    /\ RLt(SqDist4(selArgs, 2), SqDist4(selArgs, 1))

(* C8: pickCenterDetection returns -1 on an empty list and index 0 on a    *)
(* list of one detection, wherever and however large that detection is      *)
C8_EmptyAndSingle ==
    selResult # <<>> =>
        /\ Len(selArgs.allDets) = 0 => selResult = <<-1>>
        /\ Len(selArgs.allDets) = 1 => selResult = <<0>>

\* a call on a single box whose centre is not the rectangle's centre
C8_Witness ==
    /\ selResult = <<0>>
    /\ Len(selArgs.allDets) = 1
    /\ SqDist4(selArgs, 1) # R(0)

-----------------------------------------------------------------------------
(* C1: at most one detection cycle is in flight at any time: no cycle is    *)
(* started while an earlier one is suspended on its await                   *)
C1_AtMostOneInFlight ==
    Cardinality({ c \in DOMAIN cycles : InFlight(c) }) <= 1

(* C2: a cycle that was pending when the driver's cleanup ran never stores  *)
(* or delivers its result                                                   *)
C2_StaleResultDiscarded ==
    \A i \in DOMAIN deliveries : ~deliveries[i].stale

(* C3: results are delivered in the order the cycles were started          *)
C3_DeliveredInCycleOrder ==
    \A i, j \in DOMAIN deliveries :
        i < j => deliveries[i].cycle < deliveries[j].cycle

(* C4: after a cycle in which a stage failed, nothing escaped the cycle,    *)
(* the failure was reported, the stored detection list is empty, the chosen *)
(* index is -1 and the consumer holds null                                  *)
C4_FailedCycleYieldsEmpty ==
    (lastCycle # NULL /\ lastCycle.outcome = "failed") =>
        /\ unhandled = 0
        /\ diagnostics > 0
        /\ detections = <<>>
        /\ chosenIndex = -1
        /\ boundingBox = NULL

(* C5: a handleCapture call made while boundingBox is null produces no      *)
(* crop, leaves capturedImage and isCaptured unchanged, starts no animation *)
(* and no navigation                                                        *)
C5_NoCaptureWithoutBox ==
    [][(Len(captureLog') = Len(captureLog) + 1 /\ boundingBox = NULL) =>
          UNCHANGED <<capturedImage, isCaptured, animations, pendingPhotos, navLog,
                      focused>>]_vars

\* handleCapture was called with the camera rendered and boundingBox null,
\* after a cycle found nothing, and the screen still shows no capture
C5_Witness ==
    /\ captureLog = <<[box |-> NULL]>>
    /\ modelReady
    /\ deliveries # <<>>
    /\ ~isCaptured
    /\ capturedImage = NULL
    /\ animations = <<>>

(* C6: a cycle whose candidate list is empty, or in which no candidate      *)
(* reaches the score threshold, stores detections = [] and chosenIndex = -1 *)
(* and delivers null, and reports no error                                  *)
NoCandidateSurvives(output) ==
    \A i \in DOMAIN output :
        RLt(output[i][5], IF isWeb THEN WebThreshold ELSE NativeThreshold)

C6_NoDetectionsIsNormal ==
    [][(lastCycle' # lastCycle /\ lastCycle'.outcome = "published"
            /\ NoCandidateSurvives(lastCycle'.output)) =>
          /\ detections' = <<>>
          /\ chosenIndex' = -1
          /\ boundingBox' = NULL
          /\ Len(deliveries') = Len(deliveries) + 1
          /\ deliveries'[Len(deliveries')].isNull
          /\ diagnostics' = diagnostics
          /\ unhandled' = unhandled]_vars

\* a cycle with one candidate below the threshold ended after a cycle that
\* had delivered a detection, and replaced it by the empty result
C6_Witness ==
    /\ lastCycle # NULL
    /\ lastCycle.outcome = "published"
    /\ Len(lastCycle.output) = 1
    /\ Len(deliveries) = 2
    /\ ~deliveries[1].isNull
    /\ deliveries[2].isNull
    /\ detections = <<>>
    /\ chosenIndex = -1

(* C9: every pickCenterDetection call of a cycle gets boxes mapped to       *)
(* displayed space and the displayed viewport's width and height            *)
DisplayedMaps == <<"modelToNative", "nativeToDisplayed">>

C9_SelectorInDisplayedSpace ==
    lastPick # NULL =>
        /\ \A i \in DOMAIN lastPick.allDets : lastPick.allDets[i].maps = DisplayedMaps
        /\ lastPick.width = R(geom.displayedW)
        /\ lastPick.height = R(geom.displayedH)

(* C10: every box stored by setDetections, and every box the overlay draws, *)
(* went through the model-to-native scaling and the native-to-displayed     *)
(* mapping exactly once each                                                *)
C10_PublishedInDisplayedSpace ==
    /\ \A i \in DOMAIN detections : detections[i].maps = DisplayedMaps
    /\ \A i \in DOMAIN Overlay : Overlay[i].maps = DisplayedMaps

-----------------------------------------------------------------------------
(* C11: the box delivered through onDetection, and the box handleCapture    *)
(* uses as the source rectangle of its crop, is the chosen detection in     *)
(* native frame space: scaled from model space, not mapped to the display   *)
NativeMaps == <<"modelToNative">>

C11_CropInNativeSpace ==
    /\ boundingBox # NULL => boundingBox.maps = NativeMaps
    /\ "crop" \in DOMAIN capturedImage => capturedImage.crop.maps = NativeMaps

\* WebCamera with a cover-cropped video: a crop was made, its source
\* rectangle is the chosen detection among the stored native-space boxes,
\* and that box's displayed-space coordinates are different
C11_Witness ==
    /\ isWeb
    /\ geom.videoW # geom.displayedW
    /\ "crop" \in DOMAIN capturedImage
    /\ chosenIndex >= 0
    /\ capturedImage.crop = detections[chosenIndex + 1]
    /\ capturedImage.crop.x # Overlay[chosenIndex + 1].x

-----------------------------------------------------------------------------
(* C12: for every positive geometry mapToDisplayed uses the visible native  *)
(* rectangle of the cover fit (full height and centred horizontally when    *)
(* the native frame is the wider one, else full width and centred           *)
(* vertically) and returns the box ((x - sourceX) / visibleWidth *          *)
(* displayedWidth, ...) with score and class unchanged                      *)
NativeIsWider(call) ==
    RGt(RMul(call.videoW, call.displayedH), RMul(call.displayedW, call.videoH))

\* the visible rectangle as the cover fit defines it
VisibleRect(call) ==
    LET nativeWidth == call.videoW
        nativeHeight == call.videoH
        displayedWidth == call.displayedW
        displayedHeight == call.displayedH
    IN  IF NativeIsWider(call)
        THEN LET visibleWidth == RDiv(RMul(nativeHeight, displayedWidth), displayedHeight)
             IN  [visibleWidth |-> visibleWidth,
                  visibleHeight |-> nativeHeight,
                  sourceX |-> RDiv(RSub(nativeWidth, visibleWidth), R(2)),
                  sourceY |-> R(0)]
        ELSE LET visibleHeight == RDiv(RMul(nativeWidth, displayedHeight), displayedWidth)
             IN  [visibleWidth |-> nativeWidth,
                  visibleHeight |-> visibleHeight,
                  sourceX |-> R(0),
                  sourceY |-> RDiv(RSub(nativeHeight, visibleHeight), R(2))]

C12_CoverMapping ==
    Returned("mapToDisplayed") =>
        LET det == fnCall.det
            out == fnResult[1]
            v == VisibleRect(fnCall)
            src == SourceRect(fnCall.videoW, fnCall.videoH,
                              fnCall.displayedW, fnCall.displayedH)
        IN  /\ src.source_width = v.visibleWidth
            /\ src.source_height = v.visibleHeight
            /\ src.source_x = v.sourceX
            /\ src.source_y = v.sourceY
            /\ out.x = RDiv(RMul(RSub(det.x, v.sourceX), fnCall.displayedW), v.visibleWidth)
            /\ out.y = RDiv(RMul(RSub(det.y, v.sourceY), fnCall.displayedH), v.visibleHeight)
            /\ out.width = RDiv(RMul(det.width, fnCall.displayedW), v.visibleWidth)
            /\ out.height = RDiv(RMul(det.height, fnCall.displayedH), v.visibleHeight)
            /\ out.score = det.score
            /\ out.class = det.class

\* a call with the native frame wider than the element: the sides are
\* cropped and a box with a size has moved
C12_Witness ==
    /\ Returned("mapToDisplayed")
    /\ NativeIsWider(fnCall)
    /\ fnCall.det.width = R(100)
    /\ VisibleRect(fnCall).sourceX # R(0)
    /\ fnResult[1].x # fnCall.det.x

(* C13: the mapping into displayed space scales a box by the same factor    *)
(* horizontally and vertically, in mapToDisplayed and in the variants that  *)
(* scale to the displayed element directly                                  *)

\* the size of the box in native frame space that a call's box stands for
NativeSizeOf(call) ==
    IF call.fn = "mapToDisplayed"
    THEN <<call.det.width, call.det.height>>
    ELSE IF call.fn = "DirectToDisplayed"
         THEN <<RDiv(RMul(call.det[3], call.videoW), R(ModelInputSize)),
                RDiv(RMul(call.det[4], call.videoH), R(ModelInputSize))>>
         ELSE <<RMul(RSub(call.box[4], call.box[2]), call.videoW),
                RMul(RSub(call.box[3], call.box[1]), call.videoH)>>

C13_UniformScale ==
    (/\ Len(fnResult) = 1
     /\ fnCall.fn \in {"mapToDisplayed", "DirectToDisplayed", "SsdToDisplayed"}
     /\ NativeSizeOf(fnCall)[1] # R(0)
     /\ NativeSizeOf(fnCall)[2] # R(0)) =>
        RDiv(fnResult[1].width, NativeSizeOf(fnCall)[1])
            = RDiv(fnResult[1].height, NativeSizeOf(fnCall)[2])

(* C14: with native 1920x1080 shown in 360x640 the visible rectangle is     *)
(* 607.5 x 1080 at (656.25, 0); and, for every geometry, a box centred on   *)
(* the native frame's centre maps to a box centred on the viewport's centre *)
BoxCentre(b) == <<RAdd(b.x, RDiv(b.width, R(2))), RAdd(b.y, RDiv(b.height, R(2)))>>

IsScenarioC(call) ==
    /\ call.videoW = R(1920)
    /\ call.videoH = R(1080)
    /\ call.displayedW = R(360)
    /\ call.displayedH = R(640)

CentredInNative(call) ==
    BoxCentre(call.det) = <<RDiv(call.videoW, R(2)), RDiv(call.videoH, R(2))>>

C14_CentreMapsToCentre ==
    Returned("mapToDisplayed") =>
        /\ IsScenarioC(fnCall) =>
              SourceRect(fnCall.videoW, fnCall.videoH, fnCall.displayedW, fnCall.displayedH)
                  = [source_width |-> <<1215, 2>>, source_height |-> R(1080),
                     source_x |-> <<2625, 4>>, source_y |-> R(0)]
        /\ CentredInNative(fnCall) =>
              /\ BoxCentre(fnResult[1])
                    = <<RDiv(fnCall.displayedW, R(2)), RDiv(fnCall.displayedH, R(2))>>
              /\ RLe(R(0), BoxCentre(fnResult[1])[1])
              /\ RLe(BoxCentre(fnResult[1])[1], fnCall.displayedW)

\* scenario C with a 100 x 50 box on the native centre: its displayed
\* centre is (180, 320)
C14_Witness ==
    /\ Returned("mapToDisplayed")
    /\ IsScenarioC(fnCall)
    /\ CentredInNative(fnCall)
    /\ fnCall.det.width = R(100)
    /\ BoxCentre(fnResult[1]) = <<R(180), R(320)>>

(* C15: when displayedWidth / displayedHeight = nativeWidth / nativeHeight  *)
(* both crop offsets are zero, mapToDisplayed multiplies x, y, width and    *)
(* height by displayedWidth / nativeWidth, and scaling the result back by   *)
(* nativeWidth / displayedWidth gives the original box                      *)
NoCrop(call) == RMul(call.displayedW, call.videoH) = RMul(call.videoW, call.displayedH)

\* displayed space back to native space when nothing is cropped
ScaledBack(b, call) ==
    [b EXCEPT !.x = RMul(b.x, RDiv(call.videoW, call.displayedW)),
              !.y = RMul(b.y, RDiv(call.videoW, call.displayedW)),
              !.width = RMul(b.width, RDiv(call.videoW, call.displayedW)),
              !.height = RMul(b.height, RDiv(call.videoW, call.displayedW)),
              !.maps = SubSeq(b.maps, 1, Len(b.maps) - 1)]

-----------------------------------------------------------------------------
(* C16: a raw candidate [cx, cy, w, h, score, classId] is decoded and       *)
(* scaled to x = (cx - w/2) * nativeWidth / 640, y = (cy - h/2) *           *)
(* nativeHeight / 640, width = w * nativeWidth / 640, height = h *          *)
(* nativeHeight / 640 with score and class copied; and for the one          *)
(* candidate [320, 320, 100, 100, 0.9, 0] with native = displayed = 640x640 *)
(* the stored, selected-on and delivered boxes are all (270, 270, 100, 100) *)
(* and index 0 is chosen                                                    *)
ScenarioA == <<Row(320, 320, 100, 100, <<9, 10>>, 0)>>

IsScenarioA(call) ==
    /\ call.fn \in {"NativeDetect", "WebDetect"}
    /\ call.output = ScenarioA
    /\ call.videoW = R(640)
    /\ call.videoH = R(640)
    /\ call.displayedW = R(640)
    /\ call.displayedH = R(640)

Is270By100(b) ==
    /\ b.x = R(270)
    /\ b.y = R(270)
    /\ b.width = R(100)
    /\ b.height = R(100)
    /\ b.score = <<9, 10>>
    /\ b.class = R(0)

C16_DecodeAndScale ==
    /\ (Returned("convertToBoundingBox") \/ Returned("WebToVideoBox")) =>
          LET cx == fnCall.det[1]
              cy == fnCall.det[2]
              w == fnCall.det[3]
              h == fnCall.det[4]
              S == R(ModelInputSize)
              out == fnResult[1]
          IN  /\ out.x = RDiv(RMul(RSub(cx, RDiv(w, R(2))), fnCall.videoW), S)
              /\ out.y = RDiv(RMul(RSub(cy, RDiv(h, R(2))), fnCall.videoH), S)
              /\ out.width = RDiv(RMul(w, fnCall.videoW), S)
              /\ out.height = RDiv(RMul(h, fnCall.videoH), S)
              /\ out.score = fnCall.det[5]
              /\ out.class = fnCall.det[6]
    /\ (Len(fnResult) = 1 /\ IsScenarioA(fnCall)) =>
          /\ Len(fnResult[1].detections) = 1
          /\ Is270By100(fnResult[1].detections[1])
          /\ Len(fnResult[1].pick.allDets) = 1
          /\ Is270By100(fnResult[1].pick.allDets[1])
          /\ fnResult[1].chosenIndex = 0
          /\ Is270By100(fnResult[1].delivered)

\* the WebCamera cycle of scenario A has run and chose index 0
C16_Witness ==
    /\ Returned("WebDetect")
    /\ IsScenarioA(fnCall)
    /\ fnResult[1].chosenIndex = 0
    /\ fnResult[1].delivered.x = R(270)

(* C17: a raw candidate with w < 0 or h < 0 is decoded to a Detection with  *)
(* score 0, and no cycle stores or delivers a box decoded from such a       *)
(* candidate                                                                *)
Malformed(row) == RLt(row[3], R(0)) \/ RLt(row[4], R(0))

\* the box was decoded from the row: its size is the row's, scaled
DecodedFrom(b, row, call) ==
    /\ b # NULL
    /\ b.width = RDiv(RMul(row[3], call.videoW), R(ModelInputSize))
    /\ b.height = RDiv(RMul(row[4], call.videoH), R(ModelInputSize))

C17_MalformedCandidateDropped ==
    /\ ((Returned("convertToBoundingBox") \/ Returned("WebToVideoBox"))
            /\ Malformed(fnCall.det)) =>
          fnResult[1].score = R(0)
    /\ (Returned("NativeDetect") \/ Returned("WebDetect")) =>
          \A i \in DOMAIN fnCall.output :
              Malformed(fnCall.output[i]) =>
                  /\ \A j \in DOMAIN fnResult[1].detections :
                        ~DecodedFrom(fnResult[1].detections[j], fnCall.output[i], fnCall)
                  /\ ~DecodedFrom(fnResult[1].delivered, fnCall.output[i], fnCall)

(* C18: every Detection a cycle stores or delivers has width >= 0,          *)
(* height >= 0 and 0 <= score <= 1                                          *)
WellFormed(b) ==
    /\ RGe(b.width, R(0))
    /\ RGe(b.height, R(0))
    /\ RGe(b.score, R(0))
    /\ RLe(b.score, R(1))

C18_PublishedWellFormed ==
    (Returned("NativeDetect") \/ Returned("WebDetect")) =>
        /\ \A j \in DOMAIN fnResult[1].detections : WellFormed(fnResult[1].detections[j])
        /\ fnResult[1].delivered # NULL => WellFormed(fnResult[1].delivered)

(* C19: no candidate scoring below the component's threshold is among the   *)
(* rows nonMaxSuppression keeps (where it would have taken part in the      *)
(* sweep and taken one of the output slots), and every stored detection     *)
(* scores at least the threshold                                            *)
ThresholdOf(call) == IF call.fn = "WebDetect" THEN WebThreshold ELSE NativeThreshold

C19_ThresholdBeforeSuppression ==
    (Returned("NativeDetect") \/ Returned("WebDetect")) =>
        /\ \A i \in DOMAIN nonMaxSuppression(fnCall.output) :
              RGe(nonMaxSuppression(fnCall.output)[i][5], ThresholdOf(fnCall))
        /\ \A j \in DOMAIN fnResult[1].detections :
              RGe(fnResult[1].detections[j].score, ThresholdOf(fnCall))

(* C20: NonMaxSuppressor applied to its own output with the same            *)
(* parameters returns that output: the same rows in the same order          *)
C20_SuppressorIdempotent ==
    Returned("NonMaxSuppressor") =>
        NonMaxSuppressor(fnResult[1], fnCall.scoreThreshold, fnCall.iouThreshold,
                         fnCall.maxOutputs) = fnResult[1]

\* a call on three rows that kept two of them: one was suppressed
C20_Witness ==
    /\ Returned("NonMaxSuppressor")
    /\ Len(fnCall.dets) = 3
    /\ Len(fnResult[1]) = 2
    /\ fnCall.scoreThreshold = R(0)
    /\ fnCall.maxOutputs = NmsMaxOutputs
    /\ fnResult[1][1] # fnResult[1][2]

-----------------------------------------------------------------------------
(* C21 as stated: of two detections with IoU above iouThreshold and         *)
(* distinct scores (both at or above scoreThreshold, the output not cut by  *)
(* maxOutputs) the lower-scoring one is not in the output                   *)
InOutput(row, out) == \E k \in DOMAIN out : out[k] = row

\* rows i and j of the call's input overlap beyond the threshold, both pass
\* the score threshold, and i scores higher
OverlapsStronger(call, i, j) ==
    /\ RGe(call.dets[j][5], call.scoreThreshold)
    /\ RGt(call.dets[i][5], call.dets[j][5])
    /\ RGt(IoU(call.dets[i], call.dets[j]), call.iouThreshold)

NotCut(call, out) == Len(out) < call.maxOutputs

C21_KeepsOnlyHigher ==
    (Returned("NonMaxSuppressor") /\ NotCut(fnCall, fnResult[1])) =>
        \A i, j \in DOMAIN fnCall.dets :
            OverlapsStronger(fnCall, i, j) => ~InOutput(fnCall.dets[j], fnResult[1])

(* C21 amended: no two boxes in the output have IoU above iouThreshold; of  *)
(* two such detections the lower-scoring one is in the output only if the   *)
(* higher-scoring one was itself suppressed by a box in the output that     *)
(* scores at least as high; and two boxes 2px apart scoring 0.9 and 0.6     *)
(* with iouThreshold 0.5 leave only the 0.9 box                             *)
ScenarioB == <<Row(320, 320, 100, 100, <<9, 10>>, 0), Row(322, 322, 100, 100, <<3, 5>>, 0)>>

C21_NoOverlapInOutput ==
    Returned("NonMaxSuppressor") =>
        LET out == fnResult[1]
        IN  /\ \A p, q \in DOMAIN out :
                  p < q => ~RGt(IoU(out[p], out[q]), fnCall.iouThreshold)
            /\ NotCut(fnCall, out) =>
                  \A i, j \in DOMAIN fnCall.dets :
                      OverlapsStronger(fnCall, i, j) =>
                          IF InOutput(fnCall.dets[i], out)
                          THEN ~InOutput(fnCall.dets[j], out)
                          ELSE \E k \in DOMAIN out :
                                  /\ RGe(out[k][5], fnCall.dets[i][5])
                                  /\ RGt(IoU(out[k], fnCall.dets[i]), fnCall.iouThreshold)
            /\ (/\ fnCall.dets \in {ScenarioB, <<ScenarioB[2], ScenarioB[1]>>}
                /\ fnCall.iouThreshold = <<1, 2>>
                /\ fnCall.maxOutputs > 0) =>
                  out = <<ScenarioB[1]>>

\* three boxes in a row, each overlapping only its neighbour, with scores
\* 0.9, 0.8, 0.6 and iouThreshold 0: the middle one is suppressed by the
\* first and the last one stays
C21_Witness ==
    /\ Returned("NonMaxSuppressor")
    /\ fnCall.dets = <<Row(320, 320, 100, 100, <<9, 10>>, 0),
                       Row(400, 320, 100, 100, <<4, 5>>, 0),
                       Row(480, 320, 100, 100, <<3, 5>>, 0)>>
    /\ fnCall.iouThreshold = R(0)
    /\ fnCall.scoreThreshold = R(0)
    /\ fnCall.maxOutputs = NmsMaxOutputs
    /\ fnResult[1] = <<fnCall.dets[1], fnCall.dets[3]>>

(* C22: the output of NonMaxSuppressor is in descending score order, rows   *)
(* of equal score in the order of their first occurrence in the input; it   *)
(* has at most maxOutputs rows; and it is the sweep's result cut at         *)
(* maxOutputs rows                                                          *)
FirstIndex(row, dets) ==
    CHOOSE i \in DOMAIN dets : dets[i] = row /\ \A k \in 1..(i - 1) : dets[k] # row

C22_OrderedAndBounded ==
    Returned("NonMaxSuppressor") =>
        LET out == fnResult[1]
            uncut == NonMaxSuppressor(fnCall.dets, fnCall.scoreThreshold,
                                      fnCall.iouThreshold, Len(fnCall.dets))
        IN  /\ \A p, q \in DOMAIN out : p < q => RGe(out[p][5], out[q][5])
            /\ \A p, q \in DOMAIN out :
                  (p < q /\ out[p][5] = out[q][5] /\ out[p] # out[q]) =>
                      FirstIndex(out[p], fnCall.dets) < FirstIndex(out[q], fnCall.dets)
            /\ Len(out) <= fnCall.maxOutputs
            /\ out = SubSeq(uncut, 1, IF fnCall.maxOutputs < Len(uncut)
                                      THEN fnCall.maxOutputs ELSE Len(uncut))

\* three rows that all survive, cut to two rows of equal score
C22_Witness ==
    /\ Returned("NonMaxSuppressor")
    /\ Len(fnCall.dets) = 3
    /\ fnCall.maxOutputs = 2
    /\ Len(NonMaxSuppressor(fnCall.dets, fnCall.scoreThreshold, fnCall.iouThreshold, 3)) = 3
    /\ Len(fnResult[1]) = 2
    /\ fnResult[1][1][5] = fnResult[1][2][5]
    /\ fnResult[1][1] # fnResult[1][2]

(* C23: IoU(a, b) is intersectionArea / (areaA + areaB - intersectionArea); *)
(* it equals IoU(b, a); IoU(a, a) is 1 for a box with positive area; and it *)
(* is 0 for boxes that do not overlap                                       *)
Area(box) == RMul(box[3], box[4])

\* the boxes' interiors share no point
Disjoint(a, b) ==
    \/ RLe(RAdd(a[1], RDiv(a[3], R(2))), RSub(b[1], RDiv(b[3], R(2))))
    \/ RLe(RAdd(b[1], RDiv(b[3], R(2))), RSub(a[1], RDiv(a[3], R(2))))
    \/ RLe(RAdd(a[2], RDiv(a[4], R(2))), RSub(b[2], RDiv(b[4], R(2))))
    \/ RLe(RAdd(b[2], RDiv(b[4], R(2))), RSub(a[2], RDiv(a[4], R(2))))

\* width of the overlap of the intervals [c1 - w1/2, c1 + w1/2] and
\* [c2 - w2/2, c2 + w2/2]
Overlap1D(c1, w1, c2, w2) ==
    RSub(RMin(RAdd(c1, RDiv(w1, R(2))), RAdd(c2, RDiv(w2, R(2)))),
         RMax(RSub(c1, RDiv(w1, R(2))), RSub(c2, RDiv(w2, R(2)))))

C23_IoUSymmetric ==
    Returned("IoU") =>
        LET a == fnCall.a
            b == fnCall.b
        IN  /\ fnResult[1] = IoU(b, a)
            /\ (a = b /\ RGt(Area(a), R(0))) => fnResult[1] = R(1)
            /\ Disjoint(a, b) => fnResult[1] = R(0)
            /\ (~Disjoint(a, b) /\ RGt(Area(a), R(0)) /\ RGt(Area(b), R(0))) =>
                  LET intersectionArea == RMul(Overlap1D(a[1], a[3], b[1], b[3]),
                                               Overlap1D(a[2], a[4], b[2], b[4]))
                  IN  fnResult[1] = RDiv(intersectionArea,
                                         RSub(RAdd(Area(a), Area(b)), intersectionArea))

\* two boxes 2px apart: IoU 98 * 98 / (2 * 100 * 100 - 98 * 98)
C23_Witness ==
    /\ Returned("IoU")
    /\ fnCall.a = ScenarioB[1]
    /\ fnCall.b = ScenarioB[2]
    /\ fnResult[1] = <<2401, 2599>>

-----------------------------------------------------------------------------
(* C24: after every step of either component, under every interleaving of   *)
(* cycles, chosenIndex is -1 exactly when detections is empty and otherwise *)
(* an index of detections; and the value a cycle delivers is null exactly   *)
(* when chosenIndex is -1, otherwise detections[chosenIndex]                *)
C24_ChosenIndexInRange ==
    [][/\ (chosenIndex' = -1) <=> (detections' = <<>>)
       /\ chosenIndex' # -1 => (chosenIndex' + 1) \in DOMAIN detections'
       /\ deliveries' # deliveries =>
             /\ deliveries'[Len(deliveries')].isNull <=> (chosenIndex' = -1)
             /\ boundingBox' = (IF chosenIndex' = -1
                                THEN NULL
                                ELSE JsIndex(detections', chosenIndex'))]_vars

\* two cycles in flight at once; the later one completes first with nothing,
\* then the earlier one completes and chooses the second of its two boxes
C24_Witness ==
    /\ Len(deliveries) = 2
    /\ deliveries[1].cycle = 2
    /\ deliveries[1].isNull
    /\ ~deliveries[2].isNull
    /\ Len(detections) = 2
    /\ chosenIndex = 1
    /\ boundingBox = detections[2]

(* C25: WebCamera picks the index among the displayed boxes and reads the   *)
(* native box at that index: the delivered box is the native-space box      *)
(* whose displayed centre is closest to the centre of the displayed area    *)
(* (the earliest one among equally close boxes)                             *)
C25_NativeBoxOfClosestDisplayed ==
    (Returned("WebDetect") /\ fnResult[1].detections # <<>>) =>
        LET res == fnResult[1]
            shown == [allDets |->
                         [i \in DOMAIN res.detections |->
                             mapToDisplayed(res.detections[i], fnCall.videoW, fnCall.videoH,
                                            fnCall.displayedW, fnCall.displayedH)],
                      width |-> fnCall.displayedW,
                      height |-> fnCall.displayedH]
            k == res.chosenIndex + 1
        IN  /\ k \in DOMAIN res.detections
            /\ \A i \in DOMAIN res.detections :
                  /\ RLe(SqDist4(shown, k), SqDist4(shown, i))
                  /\ i < k => RLt(SqDist4(shown, k), SqDist4(shown, i))
            /\ res.delivered = res.detections[k]
            /\ res.delivered.maps = <<"modelToNative">>

\* a 1920 x 1080 frame shown in 360 x 640: the second of two boxes is chosen
\* and its native box differs from its displayed one
C25_Witness ==
    /\ Returned("WebDetect")
    /\ fnCall.videoW = R(1920)
    /\ fnCall.displayedW = R(360)
    /\ Len(fnResult[1].detections) = 2
    /\ fnResult[1].chosenIndex = 1
    /\ fnResult[1].delivered = fnResult[1].detections[2]
    /\ fnResult[1].delivered # fnResult[1].pick.allDets[2]

-----------------------------------------------------------------------------
(* C26: once the WebCamera effect's cleanup has run, no animation frame is  *)
(* requested and no detection cycle is started                              *)
C26_LoopStopsAfterCleanup ==
    [][(isWeb /\ cleanedUp) => (~rafPending' /\ Len(cycles') = Len(cycles))]_vars

(* C27: while the component is mounted with a loaded model, a failed cycle  *)
(* is followed by the start of a later cycle (as long as fewer than         *)
(* MaxCycles cycles have been started)                                      *)
C27_LoopSurvivesFailure ==
    \A n \in 1..(MaxCycles - 1) :
        (Len(cycles) = n /\ cycles[n].pc = "failed")
            ~> (Len(cycles) > n \/ cleanedUp)

(* C28: the thumbnail every navigation to the appraise screen carries is    *)
(* not null and is the image made by the handleCapture call whose           *)
(* animation ended                                                          *)
ImageOf(n) ==
    IF isWeb THEN CroppedImage(captureLog[n].box, n) ELSE PhotoUri(n)

C28_ThumbnailIsThisCapture ==
    \A k \in DOMAIN navLog :
        /\ navLog[k] # NULL
        /\ \E n \in k..Len(captureLog) : navLog[k] = ImageOf(n)

-----------------------------------------------------------------------------
(* C29: the source rectangle mapToDisplayed computes lies inside the native *)
(* frame: source_x >= 0, source_y >= 0, source_x + source_width <= videoW,  *)
(* source_y + source_height <= videoH, and at most one of source_x and      *)
(* source_y is not zero                                                     *)
C29_SourceRectInsideFrame ==
    Returned("mapToDisplayed") =>
        LET src == SourceRect(fnCall.videoW, fnCall.videoH,
                              fnCall.displayedW, fnCall.displayedH)
        IN  /\ RGe(src.source_x, R(0))
            /\ RGe(src.source_y, R(0))
            /\ RLe(RAdd(src.source_x, src.source_width), fnCall.videoW)
            /\ RLe(RAdd(src.source_y, src.source_height), fnCall.videoH)
            /\ src.source_x = R(0) \/ src.source_y = R(0)
            \* the rectangle is the one the returned box was computed with
            /\ RMul(fnResult[1].x, src.source_width)
                  = RMul(RSub(fnCall.det.x, src.source_x), fnCall.displayedW)
            /\ RMul(fnResult[1].y, src.source_height)
                  = RMul(RSub(fnCall.det.y, src.source_y), fnCall.displayedH)

\* a 1920 x 1080 frame shown in 360 x 640: 656.25 columns are cut on each
\* side and no row
C29_Witness ==
    /\ Returned("mapToDisplayed")
    /\ fnCall.videoW = R(1920)
    /\ fnCall.displayedW = R(360)
    /\ SourceRect(fnCall.videoW, fnCall.videoH,
                  fnCall.displayedW, fnCall.displayedH).source_x = <<2625, 4>>
    /\ SourceRect(fnCall.videoW, fnCall.videoH,
                  fnCall.displayedW, fnCall.displayedH).source_y = R(0)
    /\ fnCall.det.x = R(0)
    /\ RLt(fnResult[1].x, R(0))

-----------------------------------------------------------------------------
(* C30: when a detectObjects call ends, by completion, return or throw,     *)
(* every tensor it created has been disposed                                *)
C30_TensorsDisposed ==
    Returned("detectObjects") => fnResult[1] = {}

=============================================================================
